---- MODULE Spec2Model ----
(***************************************************************************)
(* National Grid dashboard: the Home page's refresh pipeline.              *)
(*                                                                         *)
(* The model covers the Home component (pages/index.tsx): its two pieces   *)
(* of React state, fetchData (one refresh cycle: four sequential requests  *)
(* to the feed proxies, then the derived grid figures), the useEffect that *)
(* starts the first cycle and arms the timers, its cleanup, and the helper *)
(* getNextFiveMinuteMark.  It also covers the API routes the page asks     *)
(* (pages/api: pricing, emissions, demand, and grid-info), each as the     *)
(* answer it gives for what its upstream request comes to, and the two     *)
(* category views of the fuel mix (GenerationPieChart, FuelList).          *)
(*                                                                         *)
(* Time is wall-clock time in milliseconds since the start of an hour.     *)
(* Power is in MW as delivered by the demand feed; published figures are   *)
(* the strings the code builds (a two-decimal GW figure, a raw number or   *)
(* "N/A").                                                                 *)
(***************************************************************************)
EXTENDS Integers, Sequences, FiniteSets, TLC

VARIABLES
    now,             \* the wall clock (ms since the start of the hour)
    phase,           \* "created" | "mounted" | "unmounted": the component's life
    initialTimeout,  \* the one-shot timer of the effect
    interval,        \* the recurring timer armed by the one-shot timer's callback
    inflight,        \* the fetchData invocations that have not settled yet
    nextId,          \* number of the next fetchData invocation
    generationMix,   \* React state: the fuel mix shown to consumers
    gridInfo,        \* React state: the grid figures shown to consumers
    lastSettled,     \* history: the fetchData invocation that settled last
    served           \* the API routes: the request handled last and its answer

vars == <<now, phase, initialTimeout, interval, inflight, nextId,
          generationMix, gridInfo, lastSettled, served>>

----------------------------------------------------------------------------
(* Bounds of the model *)

\* fetchData invocations in one behaviour
MaxCycles == 3
\* largest advance of the clock (ms) between the two clock reads of
\* getNextFiveMinuteMark
MaxReadGap == 2

----------------------------------------------------------------------------
(* Wall clock and getNextFiveMinuteMark *)

MsPerMinute == 60 * 1000
MsPerHour == 60 * MsPerMinute

\* setInterval(fetchData, 5 * 60 * 1000)
PeriodMs == 5 * 60 * 1000

\* Date.prototype.getMinutes
GetMinutes(t) == (t % MsPerHour) \div MsPerMinute

\* Date.prototype.setMinutes(m, 0, 0): minute m of the hour of t (m may be 60:
\* the date rolls over into the next hour), seconds and milliseconds zero
SetMinutes(t, m) == (t - (t % MsPerHour)) + m * MsPerMinute

\* getNextFiveMinuteMark, with the clock read at t1 by `new Date()` and at
\* t2 by `Date.now()`
GetNextFiveMinuteMark(t1, t2) ==
    LET minutes == GetMinutes(t1)
        remaining == 5 - (minutes % 5)
        target == SetMinutes(t1, minutes + remaining)
    IN  target - t2

\* the delay a timer is armed with: setTimeout treats a negative delay as 0
TimerDelay(d) == IF d < 0 THEN 0 ELSE d

----------------------------------------------------------------------------
(* Feed values *)

\* a field of a feed payload: a number, a field that is missing (undefined),
\* or text that does not parse as a number
Num(n) == [k |-> "num", v |-> n]
Absent == [k |-> "absent", v |-> 0]
Text == [k |-> "text", v |-> 0]

\* parseFloat(x) || 0: NaN (missing or unparseable) and 0 both give 0
ParseFloatOr0(f) == IF f.k = "num" THEN f.v ELSE 0

\* a published figure
NA == [k |-> "NA", neg |-> FALSE, v |-> 0]               \* the string "N/A"
Undefined == [k |-> "undefined", neg |-> FALSE, v |-> 0] \* gridInfo is null
Raw(n) == [k |-> "raw", neg |-> n < 0, v |-> n]          \* the feed's number itself
Fixed(neg, mag) == [k |-> "fixed", neg |-> neg, v |-> mag]
    \* (x).toFixed(2): sign and magnitude in hundredths of a GW

\* x || 0 in place of x || "N/A": a missing value is published as the number 0
OrZero(f) == IF f.k = "num" /\ f.v # 0 THEN Raw(f.v) ELSE Raw(0)

\* x || "N/A" for a feed field x: undefined and 0 are falsy
OrNA(f) == IF f.k = "num" /\ f.v # 0 THEN Raw(f.v) ELSE NA

\* (mw / 1000).toFixed(2): the GW figure rounded to two decimals, "-" kept
\* for a negative value that rounds to zero.  A value exactly half-way
\* between two hundredths is rounded by its binary representation; the feed
\* values used below avoid that case.
ToFixed2(mw) ==
    LET mag == IF mw < 0 THEN -mw ELSE mw
    IN  Fixed(mw < 0, (mag + 5) \div 10)

----------------------------------------------------------------------------
(* Feed responses as the Home page receives them from the four proxies *)

\* a 2xx response carrying `body`
Ok(b) == [ok |-> TRUE, body |-> b]
\* a response axios rejects (a non-2xx status or no response); for the
\* energy-mix, emissions and pricing proxies, whose body is an array
Failed == [ok |-> FALSE, body |-> <<>>]

\* /api/demand answers {data: records[0]}: the first CSV row, or nothing
\* when the CSV holds no data row
Row(nd, flows) == [hasRow |-> TRUE, ND |-> nd, flows |-> flows]
NoRow == [hasRow |-> FALSE, ND |-> Absent, flows |-> <<>>]
DemandFailed == [ok |-> FALSE, body |-> NoRow]

\* the seven interconnector columns, in the order fetchData reads them:
\* BRITNED, IFA, NEMO, ELECLINK, MOYLE, NSL, VIKING
Flows1500 == <<Num(1000), Num(1500), Num(-500), Num(0), Num(-200), Num(700), Num(-1000)>>
FlowsZero == <<Num(500), Num(-500), Num(0), Num(0), Num(300), Num(0), Num(-300)>>
FlowsExport == <<Num(-1000), Num(-1004), Num(0), Num(0), Num(0), Num(0), Num(0)>>
FlowsMissing == <<Absent, Num(1500), Num(0), Num(0), Num(0), Num(0), Text>>

MixA == <<[fuel |-> "wind", perc |-> 20], [fuel |-> "gas", perc |-> 30]>>
BaseEmissions == <<[forecast |-> Num(200)]>>
BasePricing == <<[price |-> Num(50)]>>
BaseRow == Row(Num(32000), Flows1500)

\* the answers each feed may give to a request
Feeds(m, e, p, d) == [mix |-> m, emissions |-> e, pricing |-> p, demand |-> d]

\* every feed either fails or gives its usual answer; the demand CSV may
\* also hold no data row
SchedFeeds ==
    Feeds({Failed, Ok(MixA)},
          {Failed, Ok(BaseEmissions)},
          {Failed, Ok(BasePricing)},
          {DemandFailed, Ok(NoRow), Ok(BaseRow)})

\* the wider range of answers: empty arrays, missing fields, zero and
\* negative values, unparseable text
DemandRows ==
    {Row(nd, fl) : nd \in {Num(32000), Num(0), Absent},
                   fl \in {Flows1500, FlowsZero, FlowsExport, FlowsMissing}}

AggFeeds ==
    Feeds({Failed, Ok(MixA)},
          {Failed, Ok(<<[forecast |-> Absent]>>), Ok(<<[forecast |-> Num(0)]>>),
           Ok(BaseEmissions)},
          {Failed, Ok(<<>>), Ok(<<[price |-> Num(0)]>>), Ok(BasePricing)},
          {DemandFailed, Ok(NoRow)} \cup {Ok(r) : r \in DemandRows})

\* every feed gives its usual answer
ClockFeeds == Feeds({Ok(MixA)}, {Ok(BaseEmissions)}, {Ok(BasePricing)}, {Ok(BaseRow)})

----------------------------------------------------------------------------
(* fetchData: the derived grid figures *)

RECURSIVE SumFlows(_)
\* .map((flow) => parseFloat(flow) || 0).reduce((acc, flow) => acc + flow, 0)
SumFlows(s) == IF s = <<>> THEN 0 ELSE ParseFloatOr0(Head(s)) + SumFlows(Tail(s))

\* pricingData?.[0]?.price and emissionsData?.[0]?.intensity?.forecast
FirstPrice(arr) == IF Len(arr) = 0 THEN Absent ELSE arr[1].price
FirstForecast(arr) == IF Len(arr) = 0 THEN Absent ELSE arr[1].forecast

\* new Date().toLocaleTimeString(): the clock to the second
ToLocaleTimeString(t) == t \div 1000

\* the demand, transfers and generation figures fetchData derives from the
\* demand row
DemandFigure(latestDemandData) ==
    LET demand == ParseFloatOr0(latestDemandData.ND)
    IN  IF demand # 0 THEN ToFixed2(demand) ELSE NA

\* the transfers figure with a flow total that is carried over from the
\* figures published before instead of starting at 0
TransfersFigureCarried(latestDemandData) ==
    LET transfers == SumFlows(latestDemandData.flows)
                         + SumFlows(gridInfo.src.demand.flows)
    IN  IF transfers # 0 THEN ToFixed2(transfers) ELSE NA

TransfersFigure(latestDemandData) ==
    LET transfers == SumFlows(latestDemandData.flows)
    IN  IF transfers # 0 THEN ToFixed2(transfers) ELSE NA

GenerationFigure(latestDemandData) ==
    LET demand == ParseFloatOr0(latestDemandData.ND)
        transfers == SumFlows(latestDemandData.flows)
    IN  ToFixed2(demand - transfers)

\* the answers an invocation has used when it derives the figures
Answers(c, latestDemandData) ==
    [emissions |-> c.emissionsData, pricing |-> c.pricingData,
     demand |-> latestDemandData]

\* the object fetchData hands to setGridInfo at time t; `cyc`, `src` and
\* `rerun` are history: the invocation that published it, the answers it
\* used, and whether the figures it replaces came from the same answers
DeriveGridInfo(c, latestDemandData, t) ==
    [time |-> ToLocaleTimeString(t),
     price |-> OrNA(FirstPrice(c.pricingData)),
     emissions |-> OrNA(FirstForecast(c.emissionsData)),
     demand |-> DemandFigure(latestDemandData),
     generation |-> GenerationFigure(latestDemandData),
     transfers |-> TransfersFigure(latestDemandData),
     cyc |-> c.id,
     src |-> Answers(c, latestDemandData),
     rerun |-> gridInfo.cyc # 0 /\ gridInfo.src = Answers(c, latestDemandData)]

\* useState<GridInfo | null>(null)
NullGridInfo ==
    [time |-> 0, price |-> Undefined, emissions |-> Undefined, demand |-> Undefined,
     generation |-> Undefined, transfers |-> Undefined, cyc |-> 0,
     src |-> [emissions |-> <<>>, pricing |-> <<>>, demand |-> NoRow],
     rerun |-> FALSE]

\* fetchData without its try/catch: the error leaves the invocation
OnErrorUncaught(c, at) == [id |-> c.id, outcome |-> "raised", failedAt |-> at]

\* the catch block of fetchData: the error is logged and the invocation
\* ends; `at` is the statement that threw
OnError(c, at) == [id |-> c.id, outcome |-> "caught", failedAt |-> at]

\* fetchData returns after setGridInfo
OnPublished(c) == [id |-> c.id, outcome |-> "published", failedAt |-> "none"]

\* a call of fetchData at time t: it runs up to its first await, the
\* energy-mix request is on its way
NewCycle(trig, t) ==
    [id |-> nextId, pc |-> "mix", trig |-> trig, at |-> t,
     emissionsData |-> <<>>, pricingData |-> <<>>]

----------------------------------------------------------------------------
(* The category views of the fuel mix: the aggregate ring of               *)
(* GenerationPieChart and the three FuelList totals of Home                *)

\* String.prototype.toLowerCase, on the fuel codes the feeds use below
ToLowerCase(f) ==
    CASE f = "WIND" -> "wind"
      [] f = "Gas" -> "gas"
      [] OTHER -> f

RECURSIVE ShareSum(_, _)
\* .filter((fuel) => S.includes(fuel.fuel)).reduce((acc, fuel) => acc + share, 0)
ShareSum(mix, S) ==
    IF mix = <<>> THEN 0
    ELSE (IF Head(mix).fuel \in S THEN Head(mix).perc ELSE 0) + ShareSum(Tail(mix), S)

RECURSIVE ShareSumNot(_, _)
\* .filter((fuel) => !S.includes(fuel.fuel)).reduce(...)
ShareSumNot(mix, S) ==
    IF mix = <<>> THEN 0
    ELSE (IF Head(mix).fuel \notin S THEN Head(mix).perc ELSE 0) + ShareSumNot(Tail(mix), S)

RECURSIVE LowerShareSum(_, _)
\* .filter((source) => fuelTypes.includes(source.fuel.toLowerCase()))
\* .reduce((sum, source) => sum + (source.carbonIntensityPercentage || 0), 0)
LowerShareSum(mix, fuelTypes) ==
    IF mix = <<>> THEN 0
    ELSE (IF ToLowerCase(Head(mix).fuel) \in fuelTypes THEN Head(mix).perc ELSE 0)
             + LowerShareSum(Tail(mix), fuelTypes)

\* GenerationPieChart: the grouped data of the outer ring
Renewables(mix) == ShareSum(mix, {"wind", "solar", "hydro"})
FossilFuels(mix) == ShareSum(mix, {"coal", "gas", "oil"})
Others(mix) == ShareSumNot(mix, {"wind", "solar", "hydro", "coal", "gas", "oil"})
AggregateData(mix) == <<Renewables(mix), FossilFuels(mix), Others(mix)>>

\* (x).toFixed(2) of a share total: the percentage in hundredths
PercentToFixed2(x) == x * 100

\* FuelList: the total shown next to the title
FuelListTotal(fuelTypes, mix) == PercentToFixed2(LowerShareSum(mix, fuelTypes))

\* the fuelTypes Home gives to its three lists
FossilFuelTypes == {"coal", "gas"}
RenewableFuelTypes == {"wind", "solar", "hydro"}
OtherFuelTypes == {"nuclear", "biomass", "imports", "other"}

\* Home's lists in the order <<Renewables, Fossil Fuels, Other Sources>>
ListTotals(mix) ==
    <<FuelListTotal(RenewableFuelTypes, mix), FuelListTotal(FossilFuelTypes, mix),
      FuelListTotal(OtherFuelTypes, mix)>>

\* fuel mixes as /api/energy-mix answers them
Share(f, p) == [fuel |-> f, perc |-> p]
ScenarioMix ==
    <<Share("wind", 20), Share("gas", 30), Share("nuclear", 15), Share("coal", 5),
      Share("solar", 10), Share("hydro", 5), Share("biomass", 5), Share("other", 10)>>
FullMix ==
    <<Share("biomass", 7), Share("coal", 1), Share("imports", 9), Share("gas", 25),
      Share("nuclear", 14), Share("other", 0), Share("hydro", 2), Share("solar", 8),
      Share("wind", 31), Share("oil", 3)>>
FuelCodes == {"coal", "gas", "oil", "wind", "solar", "hydro", "biomass", "nuclear",
              "imports", "other", "WIND"}
\* a mix with a fuel code the page does not know
UnknownMix == <<Share("wind", 45), Share("tidal", 5), Share("gas", 50)>>
Mixes ==
    {<<>>, MixA, ScenarioMix, FullMix, UnknownMix}
    \cup {<<Share(f, 40), Share(g, 60)>> : f, g \in FuelCodes}

MixFeeds ==
    Feeds({Failed} \cup {Ok(m) : m \in Mixes}, {Ok(BaseEmissions)}, {Ok(BasePricing)},
          {Ok(BaseRow)})

----------------------------------------------------------------------------
(* The API routes (the feed proxies): what the upstream gives, what the    *)
(* route answers                                                           *)

\* what the upstream request of a route comes to: no answer ever ("never"),
\* a transport failure (fetch rejects), or an HTTP response with a status
\* and a body; "none" when the upstream was not asked
NoUpstream == [kind |-> "none", status |-> 0, body |-> <<>>]
NeverAnswers == [kind |-> "never", status |-> 0, body |-> <<>>]
TransportFailure == [kind |-> "transport", status |-> 0, body |-> <<>>]
Http(status, body) == [kind |-> "http", status |-> status, body |-> body]

\* bodies of the JSON upstreams: text that is not JSON, a JSON object
\* without the wrapper field `data`, a JSON object whose `data` is an array
NotJson == [fmt |-> "notjson", hasData |-> FALSE, data |-> <<>>]
JsonNoData == [fmt |-> "json", hasData |-> FALSE, data |-> <<>>]
JsonData(arr) == [fmt |-> "json", hasData |-> TRUE, data |-> arr]

\* bodies of the demand upstream as csv-parse reads them with columns: true:
\* text it rejects, or the records of the data rows (none for an empty text
\* or a lone header line)
CsvInvalid == [parses |-> FALSE, records |-> <<>>]
Csv(records) == [parses |-> TRUE, records |-> records]

\* a data row of a CSV whose header line lacks ND and the interconnector
\* columns: every field fetchData reads is undefined
RowNoHeaders == Row(Absent, <<Absent, Absent, Absent, Absent, Absent, Absent, Absent>>)
OlderRow == Row(Num(30000), FlowsZero)

\* what a route answers
NoAnswer == [status |-> 0, kind |-> "none", payload |-> <<>>]
Pending == [status |-> 0, kind |-> "pending", payload |-> <<>>]
Status200 == 200
Status500 == 500
Status429 == 429
Json200(payload) == [status |-> Status200, kind |-> "payload", payload |-> payload]
\* res.status(500).json({ error: "Failed to fetch ... data" })
Error500 == [status |-> Status500, kind |-> "error", payload |-> <<>>]
\* the rate limiter answers by itself and never calls back
TooManyRequests == [status |-> Status429, kind |-> "limited", payload |-> <<>>]

\* /api/pricing and /api/emissions: await fetch, await response.json(),
\* `if (!data.data) throw`, 200 with data.data; the catch block answers 500.
\* The status of the upstream response is not looked at.
PricingHandler(u) ==
    IF u.kind = "never" THEN Pending
    ELSE IF u.kind = "transport" THEN Error500
    ELSE IF u.body.fmt = "notjson" THEN Error500
    ELSE IF ~u.body.hasData THEN Error500
    ELSE Json200(u.body.data)

EmissionsHandler(u) ==
    IF u.kind = "never" THEN Pending
    ELSE IF u.kind = "transport" THEN Error500
    ELSE IF u.body.fmt = "notjson" THEN Error500
    ELSE IF ~u.body.hasData THEN Error500
    ELSE Json200(u.body.data)

\* /api/grid-info: await fetch, await response.json(), 200 with the parsed
\* object whatever it holds
GridInfoHandler(u) ==
    IF u.kind = "never" THEN Pending
    ELSE IF u.kind = "transport" THEN Error500
    ELSE IF u.body.fmt = "notjson" THEN Error500
    ELSE Json200(u.body)

\* /api/demand: await fetch, await response.text(), parse(csvData, ...),
\* 200 with { data: records[0] }: records[0] is undefined when there is no
\* data row
DemandHandler(u) ==
    IF u.kind = "never" THEN Pending
    ELSE IF u.kind = "transport" THEN Error500
    ELSE IF ~u.body.parses THEN Error500
    ELSE Json200(IF u.body.records = <<>> THEN NoRow ELSE u.body.records[1])

Handler(e, u) ==
    CASE e = "pricing" -> PricingHandler(u)
      [] e = "emissions" -> EmissionsHandler(u)
      [] e = "grid-info" -> GridInfoHandler(u)
      [] e = "demand" -> DemandHandler(u)

\* the answer as axios.get hands it to fetchData: a 2xx answer resolves with
\* its body, any other status rejects
ToAxios(e, res) ==
    IF res.status = Status200 THEN Ok(res.payload)
    ELSE IF e = "demand" THEN DemandFailed ELSE Failed

\* no route has handled a request yet
NotServed == [endpoint |-> "none", cyc |-> 0, upstream |-> NoUpstream, res |-> NoAnswer]

----------------------------------------------------------------------------
(* State after construction: useState([]) and useState(null), no timer *)

Created ==
    /\ phase = "created"
    /\ initialTimeout = [st |-> "none", delay |-> 0, due |-> 0, readAt |-> 0, armedAt |-> 0]
    /\ interval = [armed |-> FALSE, due |-> 0]
    /\ inflight = {}
    /\ nextId = 1
    /\ generationMix = [val |-> <<>>, cyc |-> 0]
    /\ gridInfo = NullGridInfo
    /\ lastSettled = [id |-> 0, outcome |-> "none", failedAt |-> "none"]
    /\ served = NotServed

\* the page is opened at xx:03:00.000
Init == now = 3 * MsPerMinute /\ Created

----------------------------------------------------------------------------
(* The effect of Home: first cycle, one-shot timer, recurring timer, cleanup *)

\* useEffect body: fetchData(), then getNextFiveMinuteMark() (two clock
\* reads, `gap` ms apart), then setTimeout(..., initialDelay); readAt and
\* armedAt are history (the instants of the two clock reads)
Mount ==
    /\ phase = "created"
    /\ \E gap \in 0..MaxReadGap :
          LET initialDelay == GetNextFiveMinuteMark(now, now + gap)
          IN  /\ now' = now + gap
              /\ initialTimeout' = [st |-> "armed", delay |-> initialDelay,
                                    due |-> now + gap + TimerDelay(initialDelay),
                                    readAt |-> now, armedAt |-> now + gap]
    /\ inflight' = inflight \cup {NewCycle("mount", now)}
    /\ nextId' = nextId + 1
    /\ phase' = "mounted"
    /\ UNCHANGED <<interval, generationMix, gridInfo, lastSettled, served>>

\* the effect's cleanup: clearTimeout(initialTimeout), nothing else
Unmount ==
    /\ phase = "mounted"
    /\ phase' = "unmounted"
    /\ initialTimeout' = IF initialTimeout.st = "armed"
                           THEN [initialTimeout EXCEPT !.st = "cleared"]
                           ELSE initialTimeout
    /\ UNCHANGED <<now, interval, inflight, nextId, generationMix, gridInfo, lastSettled, served>>

\* the one-shot timer's callback: fetchData(), then setInterval(fetchData,
\* PeriodMs); the function it returns is discarded by the timer
TimeoutFire ==
    /\ initialTimeout.st = "armed"
    /\ now >= initialTimeout.due
    /\ inflight' = inflight \cup {NewCycle("timeout", now)}
    /\ nextId' = nextId + 1
    /\ initialTimeout' = [initialTimeout EXCEPT !.st = "fired"]
    /\ interval' = [armed |-> TRUE, due |-> now + PeriodMs]
    /\ UNCHANGED <<now, phase, generationMix, gridInfo, lastSettled, served>>

\* a tick of the recurring timer: fetchData()
IntervalTick ==
    /\ interval.armed
    /\ now >= interval.due
    /\ inflight' = inflight \cup {NewCycle("interval", now)}
    /\ nextId' = nextId + 1
    /\ interval' = [interval EXCEPT !.due = interval.due + PeriodMs]
    /\ UNCHANGED <<now, phase, initialTimeout, generationMix, gridInfo, lastSettled, served>>

\* the instants at which an armed timer is due
ArmedDues ==
    (IF initialTimeout.st = "armed" THEN {initialTimeout.due} ELSE {})
    \cup (IF interval.armed THEN {interval.due} ELSE {})

\* time passes up to the next instant at which a timer is due (timers fire
\* on time: the clock does not pass an armed timer)
AdvanceClock ==
    /\ \E t \in ArmedDues :
          /\ t > now
          /\ \A u \in ArmedDues : t <= u
          /\ now' = t
    /\ UNCHANGED <<phase, initialTimeout, interval, inflight, nextId,
                   generationMix, gridInfo, lastSettled, served>>

----------------------------------------------------------------------------
(* fetchData: one step per await; r is the response the await settles with *)

\* `await axios.get("/api/energy-mix")`; setGenerationMix on success
RecvMix(c, r) ==
    /\ c.pc = "mix"
    /\ IF r.ok
         THEN /\ generationMix' = [val |-> r.body, cyc |-> c.id]
              /\ inflight' = (inflight \ {c}) \cup {[c EXCEPT !.pc = "emissions"]}
              /\ UNCHANGED lastSettled
         ELSE /\ inflight' = inflight \ {c}
              /\ lastSettled' = OnError(c, "mix")
              /\ UNCHANGED generationMix
    /\ UNCHANGED <<now, phase, initialTimeout, interval, nextId, gridInfo, served>>

\* `await axios.get("/api/emissions")`
RecvEmissions(c, r) ==
    /\ c.pc = "emissions"
    /\ IF r.ok
         THEN /\ inflight' = (inflight \ {c})
                    \cup {[c EXCEPT !.pc = "pricing", !.emissionsData = r.body]}
              /\ UNCHANGED lastSettled
         ELSE /\ inflight' = inflight \ {c}
              /\ lastSettled' = OnError(c, "emissions")
    /\ UNCHANGED <<now, phase, initialTimeout, interval, nextId, generationMix, gridInfo, served>>

\* `await axios.get("/api/pricing")`
RecvPricing(c, r) ==
    /\ c.pc = "pricing"
    /\ IF r.ok
         THEN /\ inflight' = (inflight \ {c})
                    \cup {[c EXCEPT !.pc = "demand", !.pricingData = r.body]}
              /\ UNCHANGED lastSettled
         ELSE /\ inflight' = inflight \ {c}
              /\ lastSettled' = OnError(c, "pricing")
    /\ UNCHANGED <<now, phase, initialTimeout, interval, nextId, generationMix, gridInfo, served>>

\* `await axios.get("/api/demand")`; on success the figures are derived and
\* handed to setGridInfo.  Reading ND of a missing row throws a TypeError,
\* which the catch block takes like a failed request.
RecvDemand(c, r) ==
    /\ c.pc = "demand"
    /\ inflight' = inflight \ {c}
    /\ IF r.ok /\ r.body.hasRow
         THEN /\ gridInfo' = DeriveGridInfo(c, r.body, now)
              /\ lastSettled' = OnPublished(c)
         ELSE /\ lastSettled' = OnError(c, IF r.ok THEN "derive" ELSE "demand")
              /\ UNCHANGED gridInfo
    /\ UNCHANGED <<now, phase, initialTimeout, interval, nextId, generationMix, served>>

\* some invocation in flight takes its next step, the feeds answering from F
FetchDataStep(F) ==
    \E c \in inflight :
        \/ \E r \in F.mix : RecvMix(c, r)
        \/ \E r \in F.emissions : RecvEmissions(c, r)
        \/ \E r \in F.pricing : RecvPricing(c, r)
        \/ \E r \in F.demand : RecvDemand(c, r)

----------------------------------------------------------------------------
(* The routes at work: Home's requests to /api/emissions, /api/pricing and *)
(* /api/demand pass through their route; /api/grid-info is asked by other  *)
(* clients.  One request is handled at a time.                             *)

Routed == {"emissions", "pricing", "demand"}

\* the request invocation c waits on has not reached its route yet
Requests(c) ==
    /\ c.pc \in Routed
    /\ ~(served.cyc = c.id /\ served.endpoint = c.pc)

\* some invocation waits for the answer of the request handled last
Waiting == \E c \in inflight : served.cyc = c.id /\ served.endpoint = c.pc

\* route e handles the request of invocation id (0: another client): the
\* limiter lets it pass and the upstream request comes to u
Serve(e, id, u) ==
    /\ served' = [endpoint |-> e, cyc |-> id, upstream |-> u, res |-> Handler(e, u)]
    /\ UNCHANGED <<now, phase, initialTimeout, interval, inflight, nextId,
                   generationMix, gridInfo, lastSettled>>

\* the limiter turns the request down: the upstream is not asked
Limit(e, id) ==
    /\ served' = [endpoint |-> e, cyc |-> id, upstream |-> NoUpstream,
                  res |-> TooManyRequests]
    /\ UNCHANGED <<now, phase, initialTimeout, interval, inflight, nextId,
                   generationMix, gridInfo, lastSettled>>

\* a route handles the request of an invocation in flight, the upstream of
\* route e answering from U[e]
ServeStep(U) ==
    \E c \in inflight :
        /\ Requests(c)
        /\ \/ \E u \in U[c.pc] : Serve(c.pc, c.id, u)
           \/ Limit(c.pc, c.id)

\* /api/grid-info handles a request
GridInfoStep(U) ==
    /\ ~Waiting
    /\ \E u \in U["grid-info"] : Serve("grid-info", 0, u)

\* the route's answer settles the await of the invocation that asked; an
\* answer that is still pending settles nothing
Deliver ==
    \E c \in inflight :
        /\ served.cyc = c.id
        /\ served.endpoint = c.pc
        /\ served.res.kind # "pending"
        /\ \/ RecvEmissions(c, ToAxios(c.pc, served.res))
           \/ RecvPricing(c, ToAxios(c.pc, served.res))
           \/ RecvDemand(c, ToAxios(c.pc, served.res))

\* /api/energy-mix answers Home directly
MixStep == \E c \in inflight : \E r \in {Failed, Ok(MixA)} : RecvMix(c, r)

\* the upstream answers: a transport failure, or a response of either
\* status class with each kind of body
StatusClasses == {"2xx", "5xx"}
JsonBodies(items) == {NotJson, JsonNoData, JsonData(<<>>), JsonData(items)}
CsvBodies == {CsvInvalid, Csv(<<>>), Csv(<<RowNoHeaders>>), Csv(<<BaseRow, OlderRow>>)}

Routes == {"pricing", "emissions", "grid-info", "demand"}

ProxyUpstreams ==
    [e \in Routes |->
        {TransportFailure} \cup
        {Http(s, b) : s \in StatusClasses,
                      b \in CASE e = "pricing" -> JsonBodies(BasePricing)
                              [] e = "emissions" -> JsonBodies(BaseEmissions)
                              [] e = "grid-info" -> JsonBodies(BaseEmissions)
                              [] e = "demand" -> CsvBodies}]

\* every upstream gives its usual answer or none at all
LiveUpstreams ==
    [e \in Routes |->
        {NeverAnswers,
         Http("2xx", CASE e = "pricing" -> JsonData(BasePricing)
                       [] e = "emissions" -> JsonData(BaseEmissions)
                       [] e = "grid-info" -> JsonData(BaseEmissions)
                       [] e = "demand" -> Csv(<<BaseRow>>))}]

----------------------------------------------------------------------------
(* Specifications *)

\* the component: the timers and any number of overlapping cycles
Next ==
    \/ Mount
    \/ Unmount
    \/ nextId <= MaxCycles /\ TimeoutFire
    \/ nextId <= MaxCycles /\ IntervalTick
    \/ AdvanceClock
    \/ FetchDataStep(SchedFeeds)

Spec == Init /\ [][Next]_vars

\* the aggregation: the cycles of a page that stays open, run one after the
\* other over the wider range of feed answers
NextAgg ==
    \/ Mount
    \/ inflight = {} /\ nextId <= MaxCycles /\ TimeoutFire
    \/ inflight = {} /\ nextId <= MaxCycles /\ IntervalTick
    \/ AdvanceClock
    \/ FetchDataStep(AggFeeds)

SpecAgg == Init /\ [][NextAgg]_vars

\* the clock: the page opened at instants around the five-minute marks,
\* every feed answering
ClockTimes ==
    {0, 1, 3 * MsPerMinute, PeriodMs - 2, PeriodMs - 1, PeriodMs,
     55 * MsPerMinute, MsPerHour - 1}

InitClock == now \in ClockTimes /\ Created

NextClock ==
    \/ Mount
    \/ Unmount
    \/ nextId <= MaxCycles /\ TimeoutFire
    \/ nextId <= MaxCycles /\ IntervalTick
    \/ AdvanceClock
    \/ FetchDataStep(ClockFeeds)

SpecClock == InitClock /\ [][NextClock]_vars

\* the fuel mix: the cycles of a page that stays open, run one after the
\* other, the energy-mix feed answering any of the mixes
NextMix ==
    \/ Mount
    \/ inflight = {} /\ nextId <= MaxCycles /\ TimeoutFire
    \/ inflight = {} /\ nextId <= MaxCycles /\ IntervalTick
    \/ AdvanceClock
    \/ FetchDataStep(MixFeeds)

SpecMix == Init /\ [][NextMix]_vars

\* the routes: the cycles of a page that stays open, run one after the
\* other, each request answered by its route
NextProxy ==
    \/ Mount
    \/ inflight = {} /\ nextId <= MaxCycles /\ TimeoutFire
    \/ inflight = {} /\ nextId <= MaxCycles /\ IntervalTick
    \/ AdvanceClock
    \/ MixStep
    \/ ServeStep(ProxyUpstreams)
    \/ GridInfoStep(ProxyUpstreams)
    \/ Deliver

SpecProxy == Init /\ [][NextProxy]_vars

\* the same with upstreams that may stay silent.  A handler that is asked
\* runs, an answer that has arrived is delivered, the energy-mix request
\* settles: the event loop leaves no runnable callback waiting forever.
NextLive ==
    \/ Mount
    \/ inflight = {} /\ nextId <= MaxCycles /\ TimeoutFire
    \/ inflight = {} /\ nextId <= MaxCycles /\ IntervalTick
    \/ AdvanceClock
    \/ MixStep
    \/ ServeStep(LiveUpstreams)
    \/ GridInfoStep(LiveUpstreams)
    \/ Deliver

SpecLive ==
    /\ Init
    /\ [][NextLive]_vars
    /\ WF_vars(MixStep)
    /\ WF_vars(ServeStep(LiveUpstreams))
    /\ WF_vars(Deliver)

----------------------------------------------------------------------------
(* Properties *)

FeedNames == {"mix", "emissions", "pricing", "demand"}

\* invocation c has received the answer of feed f
Answered(c, f) ==
    \/ f = "mix" /\ c.pc \in {"emissions", "pricing", "demand"}
    \/ f = "emissions" /\ c.pc \in {"pricing", "demand"}
    \/ f = "pricing" /\ c.pc = "demand"

\* C1 (fault isolation): when a cycle ends because exactly one of its
\* requests failed (feed f), the state it publishes has the field group of f
\* Unknown and the groups of the feeds that answered as derived from their
\* answers: the grid figures and the fuel mix both come from this cycle.
C1_FaultIsolation ==
    [][\A c \in inflight : \A f \in FeedNames :
          lastSettled' = OnError(c, f)
          => /\ gridInfo'.cyc = c.id
             /\ generationMix'.cyc = c.id
             /\ f = "mix" => generationMix'.val = <<>>
             /\ gridInfo'.emissions =
                    IF f = "emissions" THEN NA
                    ELSE IF Answered(c, "emissions")
                           THEN OrNA(FirstForecast(c.emissionsData))
                           ELSE gridInfo'.emissions
             /\ gridInfo'.price =
                    IF f = "pricing" THEN NA
                    ELSE IF Answered(c, "pricing")
                           THEN OrNA(FirstPrice(c.pricingData))
                           ELSE gridInfo'.price
             /\ f = "demand" => /\ gridInfo'.demand = NA
                                /\ gridInfo'.transfers = NA
                                /\ gridInfo'.generation = NA
      ]_vars

\* what the demand row delivers
DemandKnown(row) == row.ND.k = "num"
TransfersKnown(row) == \A i \in 1..Len(row.flows) : row.flows[i].k = "num"

\* some invocation has published grid figures
Published == gridInfo.cyc # 0

\* C2: in every published grid state, generation is Unknown when demand or
\* transfers is Unknown, that is when ND or an interconnector flow of the
\* demand row is missing or unparseable: generation is never a number
\* computed from such a row.
C2_GenerationUnknown ==
    (Published /\ (~DemandKnown(gridInfo.src.demand) \/ ~TransfersKnown(gridInfo.src.demand)))
    => gridInfo.generation = NA

\* C3: for a demand row whose ND and interconnector flows are all known, the
\* published figures are demand = ND/1000, transfers = (sum of the
\* flows)/1000 and generation = demand - transfers, each with two decimals.
C3_GenerationIdentity ==
    (Published /\ DemandKnown(gridInfo.src.demand) /\ TransfersKnown(gridInfo.src.demand))
    => LET nd == gridInfo.src.demand.ND.v
           sum == SumFlows(gridInfo.src.demand.flows)
       IN  /\ gridInfo.demand = ToFixed2(nd)
           /\ gridInfo.transfers = ToFixed2(sum)
           /\ gridInfo.generation = ToFixed2(nd - sum)

\* C4: a published field is Unknown exactly when the feed delivered no
\* value for it: a real zero is published as a number, and a missing value
\* is not counted as zero.
C4_UnknownIffNoValue ==
    Published =>
        LET row == gridInfo.src.demand
        IN  /\ gridInfo.price = NA <=> FirstPrice(gridInfo.src.pricing).k # "num"
            /\ gridInfo.emissions = NA <=> FirstForecast(gridInfo.src.emissions).k # "num"
            /\ gridInfo.demand = NA <=> ~DemandKnown(row)
            /\ gridInfo.transfers = NA <=> ~TransfersKnown(row)
            /\ gridInfo.generation = NA <=> (~DemandKnown(row) \/ ~TransfersKnown(row))

\* C5: a cycle publishes nothing before all its requests have settled: no
\* visible field comes from a cycle that is still running.
C5_NoPartialPublish ==
    \A c \in inflight : generationMix.cyc # c.id /\ gridInfo.cyc # c.id

\* every invocation started so far has settled, the latest one last
Quiet == lastSettled.id # 0 /\ inflight = {} /\ nextId = lastSettled.id + 1

\* C6: once a cycle has settled, with or without a failure, every visible
\* field comes from that cycle: the fuel mix and the grid figures are never
\* those of two different cycles.
C6_OneCycleVisible ==
    Quiet => /\ generationMix.cyc = lastSettled.id
             /\ gridInfo.cyc = lastSettled.id

\* C7 (clean stop): once the effect's cleanup has run, no timer is armed
\* and no further cycle is triggered.
C7_CleanStop ==
    /\ [](phase = "unmounted" => (initialTimeout.st # "armed" /\ ~interval.armed))
    /\ [][phase = "unmounted" => nextId' = nextId]_vars

\* C8 (single flight): at most one cycle is in progress at any moment.
C8_SingleFlight == Cardinality(inflight) <= 1

\* t is a five-minute mark: minute divisible by 5, seconds and ms zero
IsFiveMinuteMark(t) == t % PeriodMs = 0

\* C9: the delay getNextFiveMinuteMark returns is non-negative and points,
\* from the instant of the call's last clock read, to the next five-minute
\* mark; called at xx:03:00.000 it returns 120 s.
C9_NextMark ==
    initialTimeout.st # "none" =>
        /\ initialTimeout.delay >= 0
        /\ initialTimeout.delay <= PeriodMs
        /\ IsFiveMinuteMark(initialTimeout.armedAt + initialTimeout.delay)
        /\ (initialTimeout.readAt = 3 * MsPerMinute /\ initialTimeout.armedAt = 3 * MsPerMinute)
               => initialTimeout.delay = 120 * 1000

\* C10: fetchData never raises: every invocation ends by publishing or in
\* its catch block, whatever fails (a request, a missing demand row); a
\* failed invocation leaves both timers as they are, and the recurring
\* timer, once armed, stays armed with its next tick at most one period
\* ahead, each tick moving it on by exactly one period.
C10_NeverThrows ==
    /\ [](lastSettled.outcome \in {"none", "published", "caught"})
    /\ [][(lastSettled' # lastSettled /\ lastSettled'.outcome # "published")
            => (interval' = interval /\ initialTimeout' = initialTimeout)]_vars
    /\ [][interval.armed => interval'.armed]_vars
    /\ [](interval.armed => (now <= interval.due /\ interval.due <= now + PeriodMs))
    /\ [][(interval.armed /\ interval'.due # interval.due)
            => interval'.due = interval.due + PeriodMs]_vars

\* a cycle has failed while deriving the figures, the recurring timer is
\* armed and has triggered a later cycle
C10_Witness ==
    /\ lastSettled.outcome = "caught"
    /\ lastSettled.failedAt = "derive"
    /\ interval.armed
    /\ \E c \in inflight : c.trig = "interval" /\ c.id > lastSettled.id

\* C11: every cycle eventually settles (it publishes or ends as failed) and
\* every route eventually answers, even when an upstream never answers: no
\* invocation stays in flight for ever and no route stays pending for ever.
C11_EverySettles ==
    /\ \A i \in 1..MaxCycles :
          (\E c \in inflight : c.id = i) ~> (\A c \in inflight : c.id # i)
    /\ (served.res.kind = "pending") ~> (served.res.kind # "pending")

\* C12: a cycle in flight when the page is torn down is abandoned: after
\* the cleanup no invocation issues a further request (none moves on to its
\* next await) and none writes the fuel mix or the grid figures.
C12_AbandonedOnStop ==
    [][phase = "unmounted"
         => /\ inflight' \subseteq inflight
            /\ generationMix' = generationMix
            /\ gridInfo' = gridInfo]_vars

\* roundToLastFiveMinuteMark(time): the minutes rounded down to a multiple
\* of five, seconds and milliseconds dropped; the "HH:MM" string is kept as
\* the minute count
RoundToLastFiveMinuteMark(t) == ((t \div MsPerMinute) \div 5) * 5

\* the Time label of a render at time t: roundToLastFiveMinuteMark(new Date())
TimeLabel(t) == RoundToLastFiveMinuteMark(t)

\* C13: the timestamp of a published grid state is the time at which its
\* cycle was triggered, however long the feeds took: the time field written
\* by setGridInfo, and the Time label of the render that follows, are those
\* of the trigger time.
C13_TriggerTimestamp ==
    [][\A c \in inflight :
          lastSettled' = OnPublished(c)
          => /\ gridInfo'.time = ToLocaleTimeString(c.at)
             /\ TimeLabel(now') = RoundToLastFiveMinuteMark(c.at)]_vars

\* the figures of two grid states are equal: every field but the timestamp
SameFigures(a, b) ==
    /\ a.price = b.price
    /\ a.emissions = b.emissions
    /\ a.demand = b.demand
    /\ a.generation = b.generation
    /\ a.transfers = b.transfers

FuelKind == {"coal", "gas", "oil", "wind", "solar", "hydro", "biomass", "nuclear",
             "imports", "other"}

RECURSIVE TotalShare(_)
TotalShare(mix) == IF mix = <<>> THEN 0 ELSE Head(mix).perc + TotalShare(Tail(mix))

\* every fuel of the mix is a FuelKind and no share is negative
ValidMix(mix) ==
    \A i \in 1..Len(mix) : mix[i].fuel \in FuelKind /\ mix[i].perc >= 0

Sum3(t) == t[1] + t[2] + t[3]

\* C15: for every published mix over FuelKind with non-negative shares,
\* Renewables + Fossil Fuels + Other Sources equals the sum of all shares,
\* in the chart's aggregate ring and in the three list totals alike.
C15_CategoriesAddUp ==
    ValidMix(generationMix.val)
    => /\ Sum3(AggregateData(generationMix.val)) = TotalShare(generationMix.val)
       /\ Sum3(ListTotals(generationMix.val))
              = PercentToFixed2(TotalShare(generationMix.val))

\* the aggregates by the fixed membership: <<Renewables, Fossil, Other>>
ByMembership(mix) ==
    <<ShareSum(mix, {"wind", "solar", "hydro"}),
      ShareSum(mix, {"coal", "gas", "oil"}),
      TotalShare(mix) - ShareSum(mix, {"wind", "solar", "hydro", "coal", "gas", "oil"})>>

\* C16: every category view of a published mix over FuelKind groups by the
\* same fixed membership (wind, solar, hydro: Renewables; coal, gas, oil:
\* Fossil Fuels; every other fuel: Other Sources); for the scenario mix the
\* aggregates are 35, 35 and 30.
C16_FixedMembership ==
    LET mix == generationMix.val
    IN  /\ ValidMix(mix) =>
               /\ AggregateData(mix) = ByMembership(mix)
               /\ ListTotals(mix) = [i \in 1..3 |-> PercentToFixed2(ByMembership(mix)[i])]
        /\ mix = ScenarioMix => /\ AggregateData(mix) = <<35, 35, 30>>
                                /\ ListTotals(mix) = <<3500, 3500, 3000>>

\* the figures of two grid states are equal but for price and timestamp
SameButPrice(a, b) ==
    /\ a.emissions = b.emissions
    /\ a.demand = b.demand
    /\ a.generation = b.generation
    /\ a.transfers = b.transfers

\* the pricing upstream has answered a JSON object whose `data` is []
EmptyPricing ==
    /\ served.endpoint = "pricing"
    /\ served.upstream.kind = "http"
    /\ served.upstream.body = JsonData(<<>>)

\* C17: when the pricing feed returns an empty array the route hands the
\* empty array on, the cycle goes on to its demand request, and it publishes
\* price "N/A" with every other figure as derived with a non-empty pricing
\* answer, the fuel mix left as the cycle wrote it.
C17_EmptyPricing ==
    /\ [](EmptyPricing => ToAxios("pricing", served.res) = Ok(<<>>))
    /\ [][\A c \in inflight :
            (EmptyPricing /\ served.cyc = c.id /\ c.pc = "pricing" /\ inflight' # inflight)
            => [c EXCEPT !.pc = "demand", !.pricingData = <<>>] \in inflight']_vars
    /\ [][\A c \in inflight :
            (lastSettled' = OnPublished(c) /\ c.pricingData = <<>>)
            => /\ gridInfo'.price = NA
               /\ SameButPrice(gridInfo',
                               DeriveGridInfo([c EXCEPT !.pricingData = BasePricing],
                                              gridInfo'.src.demand, now))
               /\ generationMix' = [val |-> MixA, cyc |-> c.id]]_vars

\* a cycle whose pricing answer was the empty array has published, with
\* numeric demand and emissions
C17_Witness ==
    /\ lastSettled.outcome = "published"
    /\ gridInfo.cyc = lastSettled.id
    /\ gridInfo.src.pricing = <<>>
    /\ gridInfo.price = NA
    /\ gridInfo.demand.k = "fixed"
    /\ gridInfo.emissions.k = "raw"
    /\ served.cyc = gridInfo.cyc

\* the routes whose upstream answers JSON with a `data` wrapper
JsonRoutes == {"pricing", "emissions", "grid-info"}

\* C18: a JSON route whose upstream answers an object with `data` absent or
\* an empty array reports a failure (status 500 with an error object), never
\* a success.
C18_WrapperChecked ==
    (/\ served.endpoint \in JsonRoutes
     /\ served.upstream.kind = "http"
     /\ served.upstream.body.fmt = "json"
     /\ (~served.upstream.body.hasData \/ served.upstream.body.data = <<>>))
    => served.res = Error500

\* the row carries ND and the interconnector columns
HasHeaders(row) ==
    /\ row.ND.k # "absent"
    /\ \A i \in 1..Len(row.flows) : row.flows[i].k # "absent"

\* C19: the demand route answers the first data row of the CSV; a CSV with
\* no data row or without the expected headers is answered as a failure, and
\* no cycle fails while it reads ND of a successful demand answer.
C19_DemandRowChecked ==
    /\ (served.endpoint = "demand" /\ served.upstream.kind = "http"
            /\ served.upstream.body.parses)
       => LET records == served.upstream.body.records
          IN  IF records # <<>> /\ HasHeaders(records[1])
                THEN served.res = Json200(records[1])
                ELSE served.res = Error500
    /\ lastSettled.failedAt # "derive"

\* the upstream request of route e succeeded: a response of a success
\* status whose body is well-formed (JSON, or CSV that parses)
UpstreamSucceeded(e, u) ==
    /\ u.kind = "http"
    /\ u.status = "2xx"
    /\ IF e = "demand" THEN u.body.parses ELSE u.body.fmt = "json"

\* C20: a route answers 200 only when its upstream request succeeded; on a
\* transport failure, a non-success upstream status or a malformed payload
\* it answers 500 with an error object.
C20_ErrorsReported ==
    served.upstream.kind \in {"transport", "http"}
    => /\ served.res.status = Status200 => UpstreamSucceeded(served.endpoint, served.upstream)
       /\ ~UpstreamSucceeded(served.endpoint, served.upstream) => served.res = Error500

\* C21: what an earlier-triggered cycle publishes never replaces what a
\* later-triggered cycle has published, for the fuel mix and for the grid
\* figures; once every cycle has settled, the grid figures shown are those
\* of the latest cycle that published any.
C21_NoStaleOverwrite ==
    /\ [][gridInfo'.cyc >= gridInfo.cyc /\ generationMix'.cyc >= generationMix.cyc]_vars
    /\ [](inflight = {} =>
            (lastSettled.outcome = "published" => gridInfo.cyc >= lastSettled.id))

\* C22 (boundary policy): called at an instant exactly on a five-minute
\* mark, getNextFiveMinuteMark returns one full period, never 0.
C22_FullPeriodOnMark ==
    (initialTimeout.st # "none" /\ IsFiveMinuteMark(initialTimeout.readAt))
    => initialTimeout.delay = PeriodMs

\* invocation c has issued its request to feed f
Issued(c, f) ==
    \/ f = "mix"
    \/ f = "emissions" /\ c.pc \in {"emissions", "pricing", "demand"}
    \/ f = "pricing" /\ c.pc \in {"pricing", "demand"}
    \/ f = "demand" /\ c.pc = "demand"

\* C23: in each cycle the four requests are issued before any of them has
\* settled (a cycle that has an answer has issued all four), and no grid
\* figure is derived before all four have settled (no figure shown comes
\* from a cycle still in flight).
C23_IssuedTogether ==
    /\ \A c \in inflight :
          (\E f \in FeedNames : Answered(c, f)) => \A g \in FeedNames : Issued(c, g)
    /\ \A c \in inflight : gridInfo.cyc # c.id

\* the first five-minute mark after instant t
NextMark(t) == ((t \div PeriodMs) + 1) * PeriodMs

\* the invocations a step starts
Started == {c \in inflight' : c.id = nextId}

\* C24: the one-shot timer fires once, at the first five-minute mark after
\* the start, triggering one cycle and arming the recurring timer; every
\* later timer-triggered cycle starts one period after the previous one:
\* every timer-triggered cycle starts on a five-minute mark, and the
\* recurring timer is armed at most once.
C24_AlignedCadence ==
    /\ [](\A c \in inflight :
            /\ c.trig = "timeout" => c.at = NextMark(initialTimeout.readAt)
            /\ c.trig \in {"timeout", "interval"} => IsFiveMinuteMark(c.at))
    /\ [][initialTimeout.st = "fired" => initialTimeout'.st = "fired"]_vars
    /\ [][(initialTimeout.st = "armed" /\ initialTimeout'.st = "fired")
            => /\ ~interval.armed /\ interval'.armed
               /\ Cardinality(Started) = 1]_vars
    /\ [][interval.armed
            => /\ interval'.armed
               /\ \A c \in Started : c.trig = "interval" /\ c.at = interval.due
               /\ interval'.due = interval.due + PeriodMs * Cardinality(Started)]_vars

\* the fuel an entry of the Mix feed is to be published under
KnownFuel(f) == IF f \in FuelKind THEN f ELSE "other"

\* mix `pub` holds every entry of the feed answer `feed`, in order, with its
\* share unchanged and its fuel code mapped into FuelKind
PublishedFrom(pub, feed) ==
    /\ Len(pub) = Len(feed)
    /\ \A i \in 1..Len(feed) :
          /\ pub[i].perc = feed[i].perc
          /\ pub[i].fuel = KnownFuel(feed[i].fuel)

\* the labels of the chart's inner ring: generationMix.map((fuel) => fuel.fuel)
FuelLabels(mix) == {mix[i].fuel : i \in 1..Len(mix)}

\* C25: the fuel mix a cycle publishes is an answer of the Mix feed with
\* every share unchanged and every fuel code outside FuelKind replaced by
\* `other`: no unknown code is shown by the chart, and the share of every
\* fuel that is neither a renewable nor a fossil fuel is counted under Other
\* Sources by the chart and by the list.
C25_UnknownFuelIsOther ==
    /\ [][generationMix'.val # generationMix.val
            => \E m \in Mixes : PublishedFrom(generationMix'.val, m)]_vars
    /\ [](FuelLabels(generationMix.val) \subseteq FuelKind)
    /\ [](/\ Others(generationMix.val) = ByMembership(generationMix.val)[3]
          /\ FuelListTotal(OtherFuelTypes, generationMix.val)
                 = PercentToFixed2(ByMembership(generationMix.val)[3]))

====
